---- MODULE Spec2Model ----
(***************************************************************************)
(* Model of the two event generators of simulation_scripts:               *)
(*   steps/step_0_cascade_simulation.py  (CascadeFactory)                  *)
(*   steps/step_0_muon_resimulation.py   (create_muon, ParticleMultiplier) *)
(*                                                                         *)
(* Numbers are integers.  Lengths are metres, times nanoseconds, energies  *)
(* GeV.  Angles handed to I3Direction are counted in quarter turns         *)
(* (pi/2 rad), the hadronic fraction and eps in millionths, the speed of   *)
(* light in micrometres per nanosecond; quotients are floor quotients.     *)
(***************************************************************************)
EXTENDS Integers, Sequences, FiniteSets, TLC

VARIABLES
    pipeline,               \* "cascade" | "muon": which script runs
    cfg,                    \* the yaml configuration handed to main
    pc,                     \* "main" | "init" | "configured" | "failed"
    error,                  \* exception that ended the run, or "none"
    flavors,                \* self.flavors
    interaction_types,      \* self.interaction_types
    num_flavors,            \* self.num_flavors
    num_interaction_types,  \* self.num_interaction_types
    num_events,             \* self.num_events
    events_done,            \* self.events_done
    suspended,              \* RequestSuspension() has been called
    primary,                \* ParticleMultiplier.primary (the muon of main)
    anchor,                 \* create_muon's locals anchor, anchor_time
    frame,                  \* the I3MCTree of the frame pushed last
    pushed,                 \* number of PushFrame calls so far
    rng_log,                \* calls on random_services[0] made by the last step
    rng_count               \* number of calls on random_services[0] so far

vars == <<pipeline, cfg, pc, error, flavors, interaction_types, num_flavors,
          num_interaction_types, num_events, events_done, suspended, primary, anchor,
          frame, pushed, rng_log, rng_count>>

----------------------------------------------------------------------------
(* Bounds of the model *)

MaxEvents == 2
MaxLate == 1

----------------------------------------------------------------------------
(* icecube constants used by the scripts *)

I3Units_m == 1
I3Units_ns == 1
I3Units_GeV == 1
\* I3Units.deg = pi/180 rad; in quarter turns one degree is 1/90
DegPerQuarterTurn == 90
\* I3Constants.c = 0.299792458 m/ns, in micrometres per nanosecond
I3Constants_c == 299792
MicroPerUnit == 1000000
\* self.eps = 1e-6, in millionths
eps == 1

NoParticle == [type |-> "none"]
NoTree == <<>>
NoAnchor == [set |-> FALSE]

----------------------------------------------------------------------------
(* RandomSource: random_service.uniform(min, max), random_service.integer(n) *)

uniform(range) == {range[1], (range[1] + range[2]) \div 2, range[2]}
integer(n) == 0 .. (n - 1)

Call(what, value) == [what |-> what, value |-> value]
Labels(log) == [i \in 1 .. Len(log) |-> log[i].what]

----------------------------------------------------------------------------
(* str.lower on the configured tokens *)

lower(s) ==
    CASE s = "NuE" -> "nue"
      [] s = "NuMu" -> "numu"
      [] s = "NuTau" -> "nutau"
      [] s = "CC" -> "cc"
      [] s = "NC" -> "nc"
      [] OTHER -> s

LowerAll(list) == [i \in 1 .. Len(list) |-> lower(list[i])]

----------------------------------------------------------------------------
(* Configurations *)

FlavorLists ==
    { <<"NuE", "NuMu", "NuTau">>, <<"numu">>, <<"NuTau", "nue">>,
      <<>>, <<"NuE", "nux">> }

InteractionLists == { <<"CC", "NC">>, <<"nc">>, <<>>, <<"CC", "xc">> }

NumEventsValues == -1 .. MaxEvents

\* fractional_energy_in_hadrons_range, in millionths: the default [0, 1.] and
\* a range at its upper end
FractionRanges == { <<0, 1000000>>, <<999998, 1000000>> }

LengthsToGoBack == {1000, 2000}

CascadeCfg(fl, its, n) ==
    [ azimuth_range |-> <<90, 90>>,
      zenith_range |-> <<0, 180>>,
      hadron_energy_range |-> <<0, 1000>>,
      fractional_energy_in_hadrons_range |-> <<0, 1000000>>,
      time_range |-> <<9000, 9000>>,
      x_range |-> <<-500, 500>>,
      y_range |-> <<0, 0>>,
      z_range |-> <<-500, -500>>,
      flavors |-> fl,
      interaction_types |-> its,
      n_events_per_run |-> n ]

MuonCfg(len, n) ==
    [ azimuth_min |-> 0, azimuth_max |-> 180,
      zenith_min |-> 0, zenith_max |-> 180,
      e_min |-> 10000, e_max |-> 10000,
      anchor_time_range |-> <<9000, 12000>>,
      anchor_x_range |-> <<-400, 400>>,
      anchor_y_range |-> <<0, 0>>,
      anchor_z_range |-> <<-400, 400>>,
      length_to_go_back |-> len,
      n_events_per_run |-> n ]

----------------------------------------------------------------------------
(* dataclasses: I3Position, I3Direction, I3Particle, I3MCTree *)

deg(v) == v \div DegPerQuarterTurn

Sin(q) == CASE q % 4 = 0 -> 0 [] q % 4 = 1 -> 1 [] q % 4 = 2 -> 0 [] OTHER -> -1
Cos(q) == CASE q % 4 = 0 -> 1 [] q % 4 = 1 -> 0 [] q % 4 = 2 -> -1 [] OTHER -> 0

I3Position(x, y, z) == <<x, y, z>>
I3Direction(zenith, azimuth) == [zenith |-> zenith, azimuth |-> azimuth]

\* the unit vector of an I3Direction: zenith and azimuth name where the
\* particle comes from
DirVec(dir) ==
    << -(Sin(dir.zenith) * Cos(dir.azimuth)),
       -(Sin(dir.zenith) * Sin(dir.azimuth)),
       -Cos(dir.zenith) >>

VecSub(a, b) == <<a[1] - b[1], a[2] - b[2], a[3] - b[3]>>
VecScale(k, v) == <<k * v[1], k * v[2], k * v[3]>>

add_primary(tree, p) == Append(tree, [particle |-> p, parent |-> 0])

IndexOf(tree, p) ==
    CHOOSE i \in 1 .. Len(tree) :
        /\ tree[i].particle = p
        /\ \A j \in 1 .. (i - 1) : tree[j].particle # p

append_child(tree, parent, child) ==
    Append(tree, [particle |-> child, parent |-> IndexOf(tree, parent)])

Roots(tree) == {i \in 1 .. Len(tree) : tree[i].parent = 0}
Children(tree, i) == {j \in 1 .. Len(tree) : tree[j].parent = i}

----------------------------------------------------------------------------
(* CascadeFactory *)

ValidInteractionTypes == {"cc", "nc"}
ValidFlavors == {"nue", "numu", "nutau"}

SanityChecks_flavors_unchecked(fl, its) ==
    \A i \in 1 .. Len(its) : its[i] \in ValidInteractionTypes

\* Configure's sanity checks pass
SanityChecks(fl, its) ==
    /\ \A i \in 1 .. Len(its) : its[i] \in ValidInteractionTypes
    /\ \A i \in 1 .. Len(fl) : fl[i] \in ValidFlavors

CascadeConfigure ==
    /\ pipeline = "cascade"
    /\ pc = "init"
    /\ flavors' = LowerAll(cfg.flavors)
    /\ num_flavors' = Len(cfg.flavors)
    /\ interaction_types' = LowerAll(cfg.interaction_types)
    /\ num_interaction_types' = Len(cfg.interaction_types)
    /\ num_events' = cfg.n_events_per_run
    /\ events_done' = 0
    /\ IF SanityChecks(LowerAll(cfg.flavors), LowerAll(cfg.interaction_types))
       THEN pc' = "configured" /\ error' = "none"
       ELSE pc' = "failed" /\ error' = "ValueError"
    /\ rng_log' = <<>>
    /\ UNCHANGED <<pipeline, cfg, suspended, primary, anchor, frame, pushed,
                   rng_count>>

CascadeCalls_zenith_first(vx, vy, vz, vt, az, zen, he, fr) ==
    << Call("x", vx), Call("y", vy), Call("z", vz), Call("time", vt),
       Call("zenith", zen), Call("azimuth", az),
       Call("hadron_energy", he), Call("fraction", fr) >>

\* the uniform draws of DAQ, in the order DAQ makes them
CascadeCalls(vx, vy, vz, vt, az, zen, he, fr) ==
    << Call("x", vx), Call("y", vy), Call("z", vz), Call("time", vt),
       Call("azimuth", az), Call("zenith", zen),
       Call("hadron_energy", he), Call("fraction", fr) >>

PrimaryEnergy_product(hadron_energy, fraction) ==
    (hadron_energy * (eps + fraction)) \div MicroPerUnit

\* primary_energy = hadron_energy / (self.eps + fraction)
PrimaryEnergy(hadron_energy, fraction) ==
    (hadron_energy * MicroPerUnit) \div (eps + fraction)

DaughterShape_all_cc(flavor, interaction_type) ==
    IF interaction_type = "cc" THEN "InfiniteTrack" ELSE "Cascade"

DaughterShape(flavor, interaction_type) ==
    IF interaction_type = "cc" /\ flavor = "numu"
    THEN "InfiniteTrack"
    ELSE "Cascade"

PrimaryType(flavor) ==
    CASE flavor = "numu" -> "NuMu"
      [] flavor = "nutau" -> "NuTau"
      [] flavor = "nue" -> "NuE"
      [] OTHER -> "unknown"

DaughterType(flavor, interaction_type) ==
    CASE flavor = "numu" /\ interaction_type = "cc" -> "MuMinus"
      [] flavor = "numu" /\ interaction_type = "nc" -> "NuMu"
      [] flavor = "nutau" /\ interaction_type = "cc" -> "TauMinus"
      [] flavor = "nutau" /\ interaction_type = "nc" -> "NuTau"
      [] flavor = "nue" /\ interaction_type = "cc" -> "EMinus"
      [] flavor = "nue" /\ interaction_type = "nc" -> "NuE"
      [] OTHER -> "unknown"

CascadeTree_chained(prim, daughter, hadrons) ==
    append_child(append_child(add_primary(<<>>, prim), prim, daughter),
                 daughter, hadrons)

\* Fill primary and daughter particles into a MCTree
CascadeTree(prim, daughter, hadrons) ==
    append_child(append_child(add_primary(<<>>, prim), prim, daughter),
                 prim, hadrons)

\* the I3MCTree DAQ builds from its draws
CascadeEvent(vx, vy, vz, vt, az, zen, he, fr, flavor, interaction_type) ==
    LET vertex_x == vx * I3Units_m
        vertex_y == vy * I3Units_m
        vertex_z == vz * I3Units_m
        vertex == I3Position(vertex_x * I3Units_m, vertex_y * I3Units_m,
                             vertex_z * I3Units_m)
        vertex_time == vt * I3Units_ns
        azimuth == deg(az)
        zenith == deg(zen)
        hadron_energy == he * I3Units_GeV
        primary_energy == PrimaryEnergy(hadron_energy, fr)
        daughter_energy == primary_energy - hadron_energy
        prim == [ type |-> PrimaryType(flavor),
                  time |-> vertex_time * I3Units_ns,
                  dir |-> I3Direction(zenith, azimuth),
                  energy |-> primary_energy * I3Units_GeV,
                  pos |-> vertex,
                  speed |-> I3Constants_c,
                  location_type |-> "InIce",
                  shape |-> "Null" ]
        daughter == [ type |-> DaughterType(flavor, interaction_type),
                      time |-> prim.time,
                      dir |-> prim.dir,
                      energy |-> daughter_energy * I3Units_GeV,
                      pos |-> prim.pos,
                      speed |-> prim.speed,
                      location_type |-> "InIce",
                      shape |-> DaughterShape(flavor, interaction_type) ]
        hadrons == [ type |-> "Hadrons",
                     time |-> daughter.time,
                     dir |-> daughter.dir,
                     energy |-> hadron_energy * I3Units_GeV,
                     pos |-> daughter.pos,
                     speed |-> daughter.speed,
                     location_type |-> daughter.location_type,
                     shape |-> "Cascade" ]
    IN  CascadeTree(prim, daughter, hadrons)

SuspensionDue_strict(done, target) == done > target

\* if self.events_done >= self.num_events
SuspensionDue(done, target) == done >= target

\* an exception leaves DAQ before the frame is pushed
DAQRaise(exception, calls) ==
    /\ error' = exception
    /\ pc' = "failed"
    /\ rng_log' = calls
    /\ rng_count' = rng_count + Len(calls)
    /\ UNCHANGED <<frame, pushed, events_done, suspended>>

\* the body of CascadeFactory.DAQ
CascadeDAQBody ==
    /\ pipeline = "cascade"
    /\ pc = "configured"
    /\ \E vx \in uniform(cfg.x_range), vy \in uniform(cfg.y_range),
          vz \in uniform(cfg.z_range), vt \in uniform(cfg.time_range),
          az \in uniform(cfg.azimuth_range),
          zen \in uniform(cfg.zenith_range),
          he \in uniform(cfg.hadron_energy_range),
          fr \in uniform(cfg.fractional_energy_in_hadrons_range) :
        LET calls == CascadeCalls(vx, vy, vz, vt, az, zen, he, fr) IN
        IF num_flavors = 0
        THEN \* self.flavors[integer(0)] on an empty list
             DAQRaise("IndexError", calls \o <<Call("flavor", -1)>>)
        ELSE \E fi \in integer(num_flavors) :
            IF num_interaction_types = 0
            THEN DAQRaise("IndexError", calls \o <<Call("flavor", fi),
                                                   Call("interaction", -1)>>)
            ELSE \E ii \in integer(num_interaction_types) :
                IF flavors[fi + 1] \notin ValidFlavors
                THEN \* the else branch: self.particle_type does not exist
                     DAQRaise("AttributeError",
                              calls \o <<Call("flavor", fi),
                                         Call("interaction", ii)>>)
                ELSE
                /\ frame' = CascadeEvent(vx, vy, vz, vt, az, zen, he, fr,
                                         flavors[fi + 1],
                                         interaction_types[ii + 1])
                /\ pushed' = pushed + 1
                /\ events_done' = events_done + 1
                /\ suspended' = (suspended \/
                                 SuspensionDue(events_done + 1, num_events))
                /\ rng_log' = calls \o <<Call("flavor", fi),
                                         Call("interaction", ii)>>
                /\ rng_count' = rng_count + 10
                /\ UNCHANGED <<pc, error>>
    /\ UNCHANGED <<pipeline, cfg, flavors, interaction_types, num_flavors,
                   num_interaction_types, num_events, primary, anchor>>

\* I3Tray.Execute delivers a frame while no suspension is requested
CascadeDAQ == ~suspended /\ CascadeDAQBody

\* a caller that invokes DAQ although suspension was requested
LateBudget ==
    events_done < (IF num_events > 1 THEN num_events ELSE 1) + MaxLate

CascadeDAQLate == suspended /\ LateBudget /\ CascadeDAQBody

----------------------------------------------------------------------------
(* create_muon and ParticleMultiplier *)

\* the draws of create_muon, in the order it makes them
MuonCalls(azi, zen, en, ax, ay, az, at) ==
    << Call("azimuth", azi), Call("zenith", zen), Call("energy", en),
       Call("anchor_x", ax), Call("anchor_y", ay), Call("anchor_z", az),
       Call("anchor_time", at) >>

Vertex_forward(anchor_pos, length_to_go_back, dir) ==
    VecSub(anchor_pos,
           VecScale(-(length_to_go_back * I3Units_m), DirVec(dir)))

\* vertex = anchor - length_to_go_back*I3Units.m * muon.dir
Vertex(anchor_pos, length_to_go_back, dir) ==
    VecSub(anchor_pos, VecScale(length_to_go_back * I3Units_m, DirVec(dir)))

\* travel_time = length_to_go_back * I3Units.m / muon.speed
TravelTime(length_to_go_back, speed) ==
    (length_to_go_back * I3Units_m * MicroPerUnit) \div speed

create_muon(azi, zen, en, ax, ay, az, at, length_to_go_back) ==
    LET azimuth == deg(azi)
        zenith == deg(zen)
        energy == en * I3Units_GeV
        dir == I3Direction(zenith, azimuth)
        anchor_pos == I3Position(ax * I3Units_m, ay * I3Units_m,
                                 az * I3Units_m)
        anchor_time == at * I3Units_ns
        vertex == Vertex(anchor_pos, length_to_go_back, dir)
        travel_time == TravelTime(length_to_go_back, I3Constants_c)
        vertex_time == anchor_time - travel_time * I3Units_ns
    IN  [ type |-> "MuMinus",
          time |-> vertex_time * I3Units_ns,
          dir |-> dir,
          energy |-> energy * I3Units_GeV,
          pos |-> vertex,
          speed |-> I3Constants_c,
          location_type |-> "InIce",
          shape |-> "Null" ]

\* main: muon = create_muon(..., random_service=random_services[0])
CreateMuon ==
    /\ pipeline = "muon"
    /\ pc = "main"
    /\ \E azi \in uniform(<<cfg.azimuth_min, cfg.azimuth_max>>),
          zen \in uniform(<<cfg.zenith_min, cfg.zenith_max>>),
          en \in uniform(<<cfg.e_min, cfg.e_max>>),
          ax \in uniform(cfg.anchor_x_range),
          ay \in uniform(cfg.anchor_y_range),
          az \in uniform(cfg.anchor_z_range),
          at \in uniform(cfg.anchor_time_range) :
        /\ primary' = create_muon(azi, zen, en, ax, ay, az, at,
                                  cfg.length_to_go_back)
        /\ anchor' = [ set |-> TRUE,
                       pos |-> I3Position(ax * I3Units_m, ay * I3Units_m,
                                          az * I3Units_m),
                       time |-> at * I3Units_ns ]
        /\ rng_log' = MuonCalls(azi, zen, en, ax, ay, az, at)
        /\ rng_count' = rng_count + 7
    /\ pc' = "init"
    /\ UNCHANGED <<pipeline, cfg, error, flavors, interaction_types,
                   num_flavors, num_interaction_types, num_events,
                   events_done, suspended, frame, pushed>>

MultiplierConfigure ==
    /\ pipeline = "muon"
    /\ pc = "init"
    /\ num_events' = cfg.n_events_per_run
    /\ primary' = primary
    /\ events_done' = 0
    /\ pc' = "configured"
    /\ rng_log' = <<>>
    /\ UNCHANGED <<pipeline, cfg, error, flavors, interaction_types,
                   num_flavors, num_interaction_types, suspended, anchor,
                   frame, pushed, rng_count>>

MultiplierTree_energy_reset(p) == add_primary(<<>>, [p EXCEPT !.energy = 0])

\* Fill primary into an MCTree
MultiplierTree(p) == add_primary(<<>>, p)

\* the body of ParticleMultiplier.DAQ
MultiplierDAQBody ==
    /\ pipeline = "muon"
    /\ pc = "configured"
    /\ frame' = MultiplierTree(primary)
    /\ pushed' = pushed + 1
    /\ events_done' = events_done + 1
    /\ suspended' = (suspended \/ SuspensionDue(events_done + 1, num_events))
    /\ rng_log' = <<>>
    /\ UNCHANGED <<pipeline, cfg, pc, error, flavors, interaction_types,
                   num_flavors, num_interaction_types, num_events, primary,
                   anchor, rng_count>>

MultiplierDAQ == ~suspended /\ MultiplierDAQBody

MultiplierDAQLate == suspended /\ LateBudget /\ MultiplierDAQBody

----------------------------------------------------------------------------
(* The two scripts under I3Tray, and under a caller that ignores suspension *)

Init ==
    /\ pipeline \in {"cascade", "muon"}
    /\ cfg \in IF pipeline = "cascade"
               THEN { [CascadeCfg(fl, its, n) EXCEPT
                         !.fractional_energy_in_hadrons_range = fr] :
                        fl \in FlavorLists, its \in InteractionLists,
                        n \in NumEventsValues, fr \in FractionRanges }
               ELSE { MuonCfg(len, n) : len \in LengthsToGoBack,
                        n \in NumEventsValues }
    /\ pc = IF pipeline = "cascade" THEN "init" ELSE "main"
    /\ error = "none"
    /\ flavors = <<>>
    /\ interaction_types = <<>>
    /\ num_flavors = 0
    /\ num_interaction_types = 0
    /\ num_events = 0
    /\ events_done = 0
    /\ suspended = FALSE
    /\ primary = NoParticle
    /\ anchor = NoAnchor
    /\ frame = NoTree
    /\ pushed = 0
    /\ rng_log = <<>>
    /\ rng_count = 0

Next ==
    \/ CascadeConfigure
    \/ CascadeDAQ
    \/ CreateMuon
    \/ MultiplierConfigure
    \/ MultiplierDAQ

Spec == Init /\ [][Next]_vars

NextDirect ==
    \/ Next
    \/ CascadeDAQLate
    \/ MultiplierDAQLate

SpecDirect == Init /\ [][NextDirect]_vars

----------------------------------------------------------------------------
(* Claims *)

C1_Counts ==
    cfg.n_events_per_run >= 1 =>
        /\ pushed = events_done
        /\ pushed <= cfg.n_events_per_run
        /\ suspended <=> (pushed = cfg.n_events_per_run)

C1_Steps ==
    [][ cfg.n_events_per_run >= 1 =>
          \/ events_done' = events_done /\ pushed' = pushed
                /\ suspended' = suspended
          \/ pc # "configured" /\ events_done' = 0 /\ pushed' = pushed
                /\ suspended' = suspended
          \/ /\ events_done' = events_done + 1
             /\ pushed' = pushed + 1
             /\ ~suspended
             /\ suspended' <=> (pushed' = cfg.n_events_per_run) ]_vars

\* C1: for a target count N >= 1, under I3Tray (one DAQ per frame until
\* suspension is requested) the counter events_done grows by exactly one per
\* pushed tree and is never reset once the run is configured, suspension is
\* requested in the invocation that pushes the Nth tree and in no earlier
\* one, and no (N+1)th tree is pushed: exactly N trees are handed off.
C1_ExactlyN == []C1_Counts /\ C1_Steps

C1_Witness ==
    /\ suspended
    /\ num_events >= 2
    /\ pushed = num_events
    /\ events_done = num_events

\* C2: once suspension has been requested, a further invocation of DAQ fails
\* with a LifecycleError, pushes no tree and leaves the counter alone.
C2_RefusesAfterDone ==
    [][ suspended =>
          /\ error' = "LifecycleError"
          /\ pushed' = pushed
          /\ events_done' = events_done
          /\ frame' = frame ]_vars

\* C3: for each of the six (flavor, interaction type) pairs the pushed tree
\* has the neutrino of the flavor as primary; the daughter is the charged
\* lepton partner for cc and the neutrino itself for nc; the daughter is an
\* InfiniteTrack for (numu, cc) only and a Cascade for the other five pairs.
C3_DecisionTable ==
    (pipeline = "cascade" /\ error = "none" /\ Len(rng_log) = 10) =>
        LET flavor == flavors[rng_log[9].value + 1]
            interaction == interaction_types[rng_log[10].value + 1]
            neutrino == [nue |-> "NuE", numu |-> "NuMu", nutau |-> "NuTau"]
            lepton == [nue |-> "EMinus", numu |-> "MuMinus",
                       nutau |-> "TauMinus"]
        IN  /\ flavor \in {"nue", "numu", "nutau"}
            /\ interaction \in {"cc", "nc"}
            /\ frame[1].particle.type = neutrino[flavor]
            /\ interaction = "cc" => frame[2].particle.type = lepton[flavor]
            /\ interaction = "nc" =>
                  frame[2].particle.type = frame[1].particle.type
            /\ frame[2].particle.shape =
                  IF <<flavor, interaction>> = <<"numu", "cc">>
                  THEN "InfiniteTrack"
                  ELSE "Cascade"

C3_Witness ==
    /\ pipeline = "cascade"
    /\ error = "none"
    /\ Len(rng_log) = 10
    /\ flavors[rng_log[9].value + 1] = "nutau"
    /\ interaction_types[rng_log[10].value + 1] = "cc"
    /\ frame[1].particle.type = "NuTau"
    /\ frame[2].particle.type = "TauMinus"
    /\ frame[2].particle.shape = "Cascade"

\* C4: when the configured flavors hold an entry outside {nue, numu, nutau}
\* or the interaction types an entry outside {cc, nc} (case ignored),
\* Configure raises before any draw is taken and before any event is
\* produced: nothing is drawn, nothing is pushed, events_done stays 0.
C4_FailFast ==
    (/\ pipeline = "cascade"
     /\ \/ \E i \in 1 .. Len(cfg.flavors) :
              lower(cfg.flavors[i]) \notin {"nue", "numu", "nutau"}
        \/ \E i \in 1 .. Len(cfg.interaction_types) :
              lower(cfg.interaction_types[i]) \notin {"cc", "nc"})
    => /\ pc \in {"init", "failed"}
       /\ pc = "failed" => error = "ValueError"
       /\ rng_count = 0
       /\ rng_log = <<>>
       /\ pushed = 0
       /\ frame = NoTree
       /\ events_done = 0
       /\ ~suspended

C4_Witness ==
    /\ pipeline = "cascade"
    /\ pc = "failed"
    /\ error = "ValueError"
    /\ cfg.flavors = <<"NuE", "nux">>
    /\ cfg.interaction_types = <<"CC", "NC">>
    /\ rng_count = 0
    /\ pushed = 0

\* C5: an empty flavors list or an empty interaction_types list is rejected
\* by Configure, before anything is drawn; it never surfaces as a failure of
\* the first DAQ invocation.
C5_EmptyListRejectedAtSetup ==
    (/\ pipeline = "cascade"
     /\ (cfg.flavors = <<>> \/ cfg.interaction_types = <<>>))
    => /\ pc \in {"init", "failed"}
       /\ pc = "failed" => error = "ValueError"
       /\ rng_count = 0

\* C6: every tree pushed by CascadeFactory has exactly one root, the primary,
\* and exactly two children, the daughter and the hadronic shower, both
\* direct children of the primary, also when hadron_energy is 0; every tree
\* pushed by ParticleMultiplier has exactly one root and no children.
C6_TreeShape ==
    frame # NoTree =>
        /\ Roots(frame) = {1}
        /\ pipeline = "cascade" =>
              /\ Len(frame) = 3
              /\ Children(frame, 1) = {2, 3}
              /\ Children(frame, 2) = {}
              /\ Children(frame, 3) = {}
              /\ frame[3].particle.type = "Hadrons"
              /\ frame[2].particle.type # "Hadrons"
        /\ pipeline = "muon" =>
              /\ Len(frame) = 1
              /\ Children(frame, 1) = {}

C6_Witness ==
    /\ pipeline = "cascade"
    /\ Len(frame) = 3
    /\ frame[3].particle.type = "Hadrons"
    /\ frame[3].particle.energy = 0
    /\ frame[3].parent = 1
    /\ frame[2].parent = 1

\* C8 as stated: a DAQ invocation of CascadeFactory makes exactly 10 draws,
\* in the order x, y, z, time, zenith, azimuth, hadron energy, fraction,
\* flavor index, interaction-type index; create_muon makes exactly 7, in the
\* order zenith, azimuth, energy, anchor x, anchor y, anchor z, anchor time.
C8_ZenithBeforeAzimuth ==
    (error = "none" /\ rng_log # <<>>) =>
        IF pipeline = "cascade"
        THEN /\ Labels(rng_log) =
                  << "x", "y", "z", "time", "zenith", "azimuth",
                     "hadron_energy", "fraction", "flavor", "interaction" >>
             /\ rng_count = 10 * pushed
        ELSE /\ Labels(rng_log) =
                  << "zenith", "azimuth", "energy", "anchor_x", "anchor_y",
                     "anchor_z", "anchor_time" >>
             /\ rng_count = 7

\* C8, amended: a DAQ invocation of CascadeFactory makes exactly 10 draws, in
\* the order x, y, z, time, azimuth, zenith, hadron energy, fraction, flavor
\* index, interaction-type index; create_muon makes exactly 7, in the order
\* azimuth, zenith, energy, anchor x, anchor y, anchor z, anchor time.  The
\* azimuth draw precedes the zenith draw in both builders.
C8_DrawOrder ==
    (error = "none" /\ rng_log # <<>>) =>
        IF pipeline = "cascade"
        THEN /\ Labels(rng_log) =
                  << "x", "y", "z", "time", "azimuth", "zenith",
                     "hadron_energy", "fraction", "flavor", "interaction" >>
             /\ rng_count = 10 * pushed
        ELSE /\ Labels(rng_log) =
                  << "azimuth", "zenith", "energy", "anchor_x", "anchor_y",
                     "anchor_z", "anchor_time" >>
             /\ rng_count = 7

C8_Witness ==
    /\ pipeline = "cascade"
    /\ error = "none"
    /\ pushed = 2
    /\ Len(rng_log) = 10
    /\ rng_log[5].what = "azimuth"
    /\ rng_log[6].what = "zenith"
    /\ rng_count = 20

\* C9: the muon of create_muon starts the back-projection distance d upstream
\* of the anchor: going d along its direction from its position arrives at
\* the anchor, its position is exactly d away from the anchor, and its time
\* is the anchor time less d / c (floor quotient); for anchor (0,0,0),
\* zenith 180 degrees and d = 2000 the vertex is (0, 0, -2000).
C9_BackProjection ==
    (pipeline = "muon" /\ anchor.set) =>
        LET d == cfg.length_to_go_back
            u == DirVec(primary.dir)
            off == VecSub(anchor.pos, primary.pos)
            t == anchor.time - primary.time
        IN  /\ off = <<d * u[1], d * u[2], d * u[3]>>
            /\ off[1] * off[1] + off[2] * off[2] + off[3] * off[3] = d * d
            /\ primary.speed = I3Constants_c
            /\ t * primary.speed <= d * MicroPerUnit
            /\ d * MicroPerUnit < (t + 1) * primary.speed
            /\ (anchor.pos = <<0, 0, 0>> /\ primary.dir.zenith = deg(180)
                  /\ d = 2000)
               => primary.pos = <<0, 0, -2000>>

C9_Witness ==
    /\ pipeline = "muon"
    /\ anchor.set
    /\ anchor.pos = <<0, 0, 0>>
    /\ anchor.time = 9000
    /\ primary.dir.zenith = deg(180)
    /\ cfg.length_to_go_back = 2000
    /\ primary.pos = <<0, 0, -2000>>
    /\ primary.time = 9000 - 6671

C10_SameRoot ==
    (pipeline = "muon" /\ frame # NoTree) =>
        /\ frame = <<[particle |-> primary, parent |-> 0]>>
        /\ rng_count = 7

C10_Frame ==
    [][ /\ (pipeline = "muon" /\ pc = "configured") =>
              /\ primary' = primary
              /\ num_events' = num_events
              /\ rng_count' = rng_count
              /\ rng_log' = <<>>
              /\ events_done' = events_done + 1
        /\ (pipeline = "cascade" /\ pushed' # pushed) =>
              /\ rng_count' = rng_count + 10
              /\ Len(rng_log') = 10 ]_vars

\* C10: the muon is drawn once, by main before the first frame: every tree
\* ParticleMultiplier pushes has the stored primary as its root, a DAQ
\* invocation of ParticleMultiplier takes no draw and leaves the stored
\* primary and num_events alone (events_done grows by one), whereas every
\* DAQ invocation of CascadeFactory that pushes a tree takes 10 fresh draws.
C10_SampledOnce == []C10_SameRoot /\ C10_Frame

C10_Witness ==
    /\ pipeline = "muon"
    /\ pushed = 2
    /\ events_done = 2
    /\ rng_count = 7
    /\ frame = <<[particle |-> primary, parent |-> 0]>>
    /\ primary.type = "MuMinus"

\* C11 as stated: with a positive hadron_energy, a hadronic fraction at or
\* near 0 (here: at most one half) drives daughter_energy negative.
C11_NegativeForSmallFraction ==
    (pipeline = "cascade" /\ error = "none" /\ Len(rng_log) = 10) =>
        LET hadron_energy == rng_log[7].value
            fraction == rng_log[8].value
            daughter_energy == frame[2].particle.energy
        IN  (hadron_energy > 0 /\ 2 * fraction <= MicroPerUnit)
            => daughter_energy < 0

\* C11, amended: with primary_energy = hadron_energy / (f + eps) and
\* daughter_energy = primary_energy - hadron_energy, for a positive
\* hadron_energy the daughter energy is negative exactly when f + eps > 1,
\* that is for f at the upper end of the default range [0, 1]; for small f
\* it is positive (at f = 0 it is hadron_energy * (1/eps - 1)), and the
\* primary energy less the daughter energy is always the hadron energy.
\* (Energies are whole GeV here: a positive daughter energy below 1 GeV
\* reads 0, a negative one reads at most -1.)
C11_NegativeNearOne ==
    (pipeline = "cascade" /\ error = "none" /\ Len(rng_log) = 10) =>
        LET hadron_energy == rng_log[7].value
            fraction == rng_log[8].value
            primary_energy == frame[1].particle.energy
            daughter_energy == frame[2].particle.energy
        IN  /\ primary_energy - daughter_energy = hadron_energy
            /\ frame[3].particle.energy = hadron_energy
            /\ hadron_energy > 0 =>
                  /\ (daughter_energy < 0) <=> (fraction + eps > MicroPerUnit)
                  /\ fraction + eps = MicroPerUnit => daughter_energy = 0
                  /\ fraction = 0 =>
                        daughter_energy = hadron_energy * (MicroPerUnit - eps)
            /\ hadron_energy = 0 => daughter_energy = 0

C11_Witness ==
    /\ pipeline = "cascade"
    /\ error = "none"
    /\ Len(rng_log) = 10
    /\ rng_log[7].value = 1000
    /\ rng_log[8].value = 1000000
    /\ frame[1].particle.energy = 999
    /\ frame[2].particle.energy = -1

\* C12: suspension is requested only by an invocation that has pushed a
\* tree; hence with a target num_events <= 0, once the first frame has been
\* delivered to DAQ exactly one tree has been pushed and suspension was
\* requested by that first invocation: no run with a delivered frame ends
\* with zero events.
C12_OneTreeForNonPositiveTarget ==
    /\ suspended => (pushed >= 1 /\ events_done = pushed)
    /\ (/\ cfg.n_events_per_run <= 0
        /\ IF pipeline = "cascade" THEN rng_count > 0 ELSE pushed > 0)
       => (pushed = 1 /\ events_done = 1 /\ suspended)

====
